---- MODULE Spec2Model ----
(***************************************************************************)
(* Model of the tilez game server (src/src/bin/server.rs): the             *)
(* authoritative GameState (place / shoot), the per-game session loop      *)
(* run_game, and the accept loop of main with its semaphore of game slots. *)
(*                                                                         *)
(* Numbers.  The code computes on f32.  The model computes on the integer  *)
(* grid, where f32 arithmetic is exact (|v| < 2^24), extended with the one *)
(* non-number the wire accepts: "NaN" parses as an f32 in Rust, and every  *)
(* comparison with NaN is false.  Infinities and rounding are not          *)
(* modelled.  A number is a record [nan, v].                               *)
(***************************************************************************)
EXTENDS Integers, Sequences, FiniteSets, TLC

VARIABLES
    gs,         \* a GameState driven directly through place / shoot
    placed,     \* number of place calls on gs that returned Ok
    shots,      \* number of shoot calls on gs that returned Ok
    args,       \* the parsed command line: [max_games]
    slots,      \* Semaphore: number of available permits
    acceptPc,   \* position of main's accept loop
    game_counter, \* AtomicU32 game_counter
    tasks,      \* spawned run_game tasks, by game_id
    step,       \* the last call or step: what it was given, what it
                \* returned and the messages it wrote, in order
    conns,      \* listener: connections accepted so far (they are numbered in
                \* the order accept() returns them) and the s1 main holds
    clients,    \* the terminal clients of session 0, if its peers are terminal
                \* clients: [player_id, my_turn, up] per peer; <<>> otherwise
    wire,       \* lines written to those clients that they have not read yet
    ents        \* engine variant: the entities, [pos, radius] each

vars == <<gs, placed, shots, args, slots, acceptPc, game_counter, tasks, step,
          conns, clients, wire, ents>>

---------------------------------------------------------------------------
(* Bounds of the model *)

MaxPieces == 2      \* pieces a game may hold before further places are cut off
MaxMoves == 3       \* accepted moves per game before further moves are cut off
MaxCoord == 3       \* |x|, |y| of a piece stay within this after a shoot
MaxGamesArg == 2    \* largest --max-games tried
MaxGameId == 3      \* game ids handed out before the accept loop is cut off
MaxEntities == 3    \* entities the engine may hold before further spawns are cut off

---------------------------------------------------------------------------
(* f32 on the integer grid, plus NaN *)

F(n) == [nan |-> FALSE, v |-> n]
NaN == [nan |-> TRUE, v |-> 0]

fadd(a, b) == IF a.nan \/ b.nan THEN NaN ELSE F(a.v + b.v)
fsub(a, b) == IF a.nan \/ b.nan THEN NaN ELSE F(a.v - b.v)
fmul(a, b) == IF a.nan \/ b.nan THEN NaN ELSE F(a.v * b.v)
\* a / b; the inputs of the model keep the quotient on the grid (b divides a)
fdiv(a, b) == IF a.nan \/ b.nan \/ b.v = 0 THEN NaN ELSE F(a.v \div b.v)
flt(a, b) == ~a.nan /\ ~b.nan /\ a.v < b.v
fle(a, b) == ~a.nan /\ ~b.nan /\ a.v <= b.v
fge(a, b) == ~a.nan /\ ~b.nan /\ a.v >= b.v

\* powi(2)
powi2(a) == fmul(a, a)

\* sqrt of a perfect square (the model's directions have integer length)
fsqrt(a) == IF a.nan \/ a.v < 0 THEN NaN
            ELSE F(CHOOSE r \in 0..a.v : r * r <= a.v /\ (r + 1) * (r + 1) > a.v)

\* a.sqrt() < b, exact for any non-negative integer a: sqrt(a) < b iff
\* b > 0 and a < b*b
sqrt_lt(a, b) == ~a.nan /\ ~b.nan /\ a.v >= 0 /\ b.v > 0 /\ a.v < b.v * b.v

\* mutant: the direction's length is not tested
lt_EPSILON_off(len) == FALSE

\* len < f32::EPSILON (2^-23): on the grid, the only len below it is 0 or less
lt_EPSILON(len) == flt(len, F(1))

---------------------------------------------------------------------------
(* GameState *)

Piece(owner, x, y, radius) == [owner |-> owner, x |-> x, y |-> y, radius |-> radius]

\* GameState::new
GameState_new == [pieces |-> <<>>, turn |-> 0]

Ok_ == "Ok"
Err(s, reason) == [state |-> s, result |-> reason]

\* mutant: touching circles count as overlapping (dist <= p.radius + radius)
overlaps_touching(p, x, y, radius) ==
    LET d2 == fadd(powi2(fsub(p.x, x)), powi2(fsub(p.y, y)))
        sum == fadd(p.radius, radius)
    IN ~d2.nan /\ ~sum.nan /\ sum.v >= 0 /\ d2.v <= sum.v * sum.v

\* mutant: the new radius is left out of the overlap test
overlaps_radius_only(p, x, y, radius) ==
    sqrt_lt(fadd(powi2(fsub(p.x, x)), powi2(fsub(p.y, y))), p.radius)

\* the overlap test of place: dist < p.radius + radius
overlaps(p, x, y, radius) ==
    sqrt_lt(fadd(powi2(fsub(p.x, x)), powi2(fsub(p.y, y))), fadd(p.radius, radius))

\* mutant: the new piece is put in front of the list
place_in_front(s, owner, x, y, radius) ==
    IF owner # s.turn THEN Err(s, "not your turn")
    ELSE IF fle(radius, F(0)) THEN Err(s, "radius must be positive")
    ELSE IF \E i \in 1..Len(s.pieces) : overlaps(s.pieces[i], x, y, radius)
         THEN Err(s, "overlaps an existing piece")
    ELSE [state |-> [pieces |-> <<Piece(owner, x, y, radius)>> \o s.pieces,
                     turn |-> 1 - s.turn],
          result |-> Ok_]

\* mutant: an accepted place keeps the turn
place_noflip(s, owner, x, y, radius) ==
    IF owner # s.turn THEN Err(s, "not your turn")
    ELSE IF fle(radius, F(0)) THEN Err(s, "radius must be positive")
    ELSE IF \E i \in 1..Len(s.pieces) : overlaps(s.pieces[i], x, y, radius)
         THEN Err(s, "overlaps an existing piece")
    ELSE [state |-> [pieces |-> Append(s.pieces, Piece(owner, x, y, radius)),
                     turn |-> s.turn],
          result |-> Ok_]

\* GameState::place: the state after the call and the value returned
place(s, owner, x, y, radius) ==
    IF owner # s.turn THEN Err(s, "not your turn")
    ELSE IF fle(radius, F(0)) THEN Err(s, "radius must be positive")
    ELSE IF \E i \in 1..Len(s.pieces) : overlaps(s.pieces[i], x, y, radius)
         THEN Err(s, "overlaps an existing piece")
    ELSE [state |-> [pieces |-> Append(s.pieces, Piece(owner, x, y, radius)),
                     turn |-> 1 - s.turn],
          result |-> Ok_]

\* mutant: the piece is looked up before the direction is tested
shoot_index_first(s, owner, index, dx, dy, force) ==
    IF owner # s.turn THEN Err(s, "not your turn")
    ELSE IF index >= Len(s.pieces) THEN Err(s, "piece index out of range")
    ELSE IF s.pieces[index + 1].owner # owner
         THEN Err(s, "that piece does not belong to you")
    ELSE LET len == fsqrt(fadd(fmul(dx, dx), fmul(dy, dy))) IN
    IF lt_EPSILON(len) THEN Err(s, "direction vector must be non-zero")
    ELSE LET p == s.pieces[index + 1]
             q == [p EXCEPT !.x = fadd(p.x, fmul(fdiv(dx, len), force)),
                            !.y = fadd(p.y, fmul(fdiv(dy, len), force))]
         IN [state |-> [pieces |-> [s.pieces EXCEPT ![index + 1] = q],
                        turn |-> 1 - s.turn],
             result |-> Ok_]

\* mutant: the owner of the piece is not compared with the caller
shoot_any_piece(s, owner, index, dx, dy, force) ==
    IF owner # s.turn THEN Err(s, "not your turn")
    ELSE LET len == fsqrt(fadd(fmul(dx, dx), fmul(dy, dy))) IN
    IF lt_EPSILON(len) THEN Err(s, "direction vector must be non-zero")
    ELSE IF index >= Len(s.pieces) THEN Err(s, "piece index out of range")
    ELSE LET p == s.pieces[index + 1]
             q == [p EXCEPT !.x = fadd(p.x, fmul(fdiv(dx, len), force)),
                            !.y = fadd(p.y, fmul(fdiv(dy, len), force))]
         IN [state |-> [pieces |-> [s.pieces EXCEPT ![index + 1] = q],
                        turn |-> 1 - s.turn],
             result |-> Ok_]

\* mutant: the direction is not normalised
shoot_unnormalised(s, owner, index, dx, dy, force) ==
    IF owner # s.turn THEN Err(s, "not your turn")
    ELSE LET len == fsqrt(fadd(fmul(dx, dx), fmul(dy, dy))) IN
    IF lt_EPSILON(len) THEN Err(s, "direction vector must be non-zero")
    ELSE IF index >= Len(s.pieces) THEN Err(s, "piece index out of range")
    ELSE IF s.pieces[index + 1].owner # owner
         THEN Err(s, "that piece does not belong to you")
    ELSE LET p == s.pieces[index + 1]
             q == [p EXCEPT !.x = fadd(p.x, fmul(dx, force)),
                            !.y = fadd(p.y, fmul(dy, force))]
         IN [state |-> [pieces |-> [s.pieces EXCEPT ![index + 1] = q],
                        turn |-> 1 - s.turn],
             result |-> Ok_]

\* mutant: the turn is handed over before the owner of the piece is checked
shoot_flip_early(s, owner, index, dx, dy, force) ==
    IF owner # s.turn THEN Err(s, "not your turn")
    ELSE LET len == fsqrt(fadd(fmul(dx, dx), fmul(dy, dy))) IN
    IF lt_EPSILON(len) THEN Err(s, "direction vector must be non-zero")
    ELSE IF index >= Len(s.pieces) THEN Err(s, "piece index out of range")
    ELSE IF s.pieces[index + 1].owner # owner
         THEN Err([s EXCEPT !.turn = 1 - s.turn], "that piece does not belong to you")
    ELSE LET p == s.pieces[index + 1]
             q == [p EXCEPT !.x = fadd(p.x, fmul(fdiv(dx, len), force)),
                            !.y = fadd(p.y, fmul(fdiv(dy, len), force))]
         IN [state |-> [pieces |-> [s.pieces EXCEPT ![index + 1] = q],
                        turn |-> 1 - s.turn],
             result |-> Ok_]

\* GameState::shoot; index counts from 0 as in the code
shoot(s, owner, index, dx, dy, force) ==
    IF owner # s.turn THEN Err(s, "not your turn")
    ELSE LET len == fsqrt(fadd(fmul(dx, dx), fmul(dy, dy))) IN
    IF lt_EPSILON(len) THEN Err(s, "direction vector must be non-zero")
    ELSE IF index >= Len(s.pieces) THEN Err(s, "piece index out of range")
    ELSE IF s.pieces[index + 1].owner # owner
         THEN Err(s, "that piece does not belong to you")
    ELSE LET p == s.pieces[index + 1]
             q == [p EXCEPT !.x = fadd(p.x, fmul(fdiv(dx, len), force)),
                            !.y = fadd(p.y, fmul(fdiv(dy, len), force))]
         IN [state |-> [pieces |-> [s.pieces EXCEPT ![index + 1] = q],
                        turn |-> 1 - s.turn],
             result |-> Ok_]

---------------------------------------------------------------------------
(* Wire codec.  A line is the sequence of its whitespace-separated tokens  *)
(* (split_whitespace); a token is a string.                                *)

Some(v) == <<v>>
None == <<>>

\* str::parse::<f32> on the tokens of the model: what the clients send and
\* what {:.3} prints
parse_f32(t) ==
    CASE t = "-2" -> Some(F(-2))
      [] t = "-1" -> Some(F(-1))
      [] t = "0" -> Some(F(0))
      [] t = "1" -> Some(F(1))
      [] t = "2" -> Some(F(2))
      [] t = "3" -> Some(F(3))
      [] t = "5" -> Some(F(5))
      [] t = "NaN" -> Some(NaN)
      [] t = "-5.000" -> Some(F(-5))
      [] t = "-4.000" -> Some(F(-4))
      [] t = "-3.000" -> Some(F(-3))
      [] t = "-2.000" -> Some(F(-2))
      [] t = "-1.000" -> Some(F(-1))
      [] t = "0.000" -> Some(F(0))
      [] t = "1.000" -> Some(F(1))
      [] t = "2.000" -> Some(F(2))
      [] t = "3.000" -> Some(F(3))
      [] t = "4.000" -> Some(F(4))
      [] t = "5.000" -> Some(F(5))
      [] OTHER -> None

\* str::parse::<usize>: no sign, no NaN
parse_usize(t) ==
    CASE t = "0" -> Some(0)
      [] t = "1" -> Some(1)
      [] t = "2" -> Some(2)
      [] t = "3" -> Some(3)
      [] t = "5" -> Some(5)
      [] OTHER -> None

\* ClientCmd::parse: tokens past the last field are not looked at
ClientCmd_parse(line) ==
    IF Len(line) = 0 THEN None
    ELSE IF line[1] = "PLACE" THEN
        IF Len(line) >= 4 /\ parse_f32(line[2]) # None /\ parse_f32(line[3]) # None
                          /\ parse_f32(line[4]) # None
        THEN Some([cmd |-> "Place", x |-> parse_f32(line[2])[1],
                   y |-> parse_f32(line[3])[1], radius |-> parse_f32(line[4])[1]])
        ELSE None
    ELSE IF line[1] = "SHOOT" THEN
        IF Len(line) >= 5 /\ parse_usize(line[2]) # None /\ parse_f32(line[3]) # None
                          /\ parse_f32(line[4]) # None /\ parse_f32(line[5]) # None
        THEN Some([cmd |-> "Shoot", index |-> parse_usize(line[2])[1],
                   dx |-> parse_f32(line[3])[1], dy |-> parse_f32(line[4])[1],
                   force |-> parse_f32(line[5])[1]])
        ELSE None
    ELSE None

\* {:.3} of an f32 on the grid
fmt3(a) == IF a.nan THEN "NaN" ELSE ToString(a.v) \o ".000"

\* mutant: the radius is printed before the position
Piece_fmt_radius_first(p) == <<ToString(p.owner), fmt3(p.radius), fmt3(p.x), fmt3(p.y)>>

\* Display for Piece: "<owner> <x> <y> <radius>"
Piece_fmt(p) == <<ToString(p.owner), fmt3(p.x), fmt3(p.y), fmt3(p.radius)>>

RECURSIVE join(_)
join(ps) == IF ps = <<>> THEN <<>> ELSE Piece_fmt(Head(ps)) \o join(Tail(ps))

\* mutant: the snapshot leaves out the number of pieces
state_line_uncounted(s) == <<"STATE">> \o join(s.pieces)

\* GameState::state_line
state_line(s) == <<"STATE", ToString(Len(s.pieces))>> \o join(s.pieces)

---------------------------------------------------------------------------
(* The client's decoder (src/src/bin/client.rs).  raw.trim() and          *)
(* split_whitespace leave the tokens of the line.                          *)

\* str::parse::<u8> on the tokens of the model
parse_u8(t) == parse_usize(t)

\* the `for index in 0..n` of BoardState::parse, from `index` on
RECURSIVE read_pieces(_, _, _)
read_pieces(t, index, n) ==
    IF index >= n THEN Some(<<>>)
    ELSE IF Len(t) < 4 \/ parse_u8(t[1]) = None \/ parse_f32(t[2]) = None
            \/ parse_f32(t[3]) = None \/ parse_f32(t[4]) = None
    THEN None
    ELSE LET rest == read_pieces(SubSeq(t, 5, Len(t)), index + 1, n) IN
         IF rest = None THEN None
         ELSE Some(<<[index |-> index, owner |-> parse_u8(t[1])[1],
                      x |-> parse_f32(t[2])[1], y |-> parse_f32(t[3])[1],
                      radius |-> parse_f32(t[4])[1]]>> \o rest[1])

\* BoardState::parse on the payload after "STATE "
BoardState_parse(t) ==
    IF Len(t) = 0 \/ parse_usize(t[1]) = None THEN None
    ELSE LET ps == read_pieces(Tail(t), 0, parse_usize(t[1])[1]) IN
         IF ps = None THEN None ELSE Some([pieces |-> ps[1]])

\* ServerMsg::parse
ServerMsg_parse(line) ==
    IF line = <<"WAITING">> THEN [kind |-> "Waiting"]
    ELSE IF line = <<"YOUR_TURN">> THEN [kind |-> "YourTurn"]
    ELSE IF line = <<"OPPONENT_TURN">> THEN [kind |-> "OpponentTurn"]
    ELSE IF line = <<"OK">> THEN [kind |-> "Ok"]
    ELSE IF line = <<"DISCONNECTED">> THEN [kind |-> "Disconnected"]
    ELSE IF Len(line) = 2 /\ line[1] = "READY" /\ parse_u8(line[2]) # None
         THEN [kind |-> "Ready", player_id |-> parse_u8(line[2])[1]]
    ELSE IF Len(line) >= 2 /\ line[1] = "ERROR"
         THEN [kind |-> "Error", reason |-> Tail(line)]
    ELSE IF Len(line) >= 2 /\ line[1] = "STATE" /\ BoardState_parse(Tail(line)) # None
         THEN [kind |-> "State", board |-> BoardState_parse(Tail(line))[1]]
    ELSE [kind |-> "Unknown", raw |-> line]

---------------------------------------------------------------------------
(* run_game: one iteration of the session loop *)

Msg(to, msg) == [to |-> to, msg |-> msg]

\* a line whose bytes are not UTF-8: lines.next_line() resolves to Err
InvalidUtf8 == <<"<invalid utf-8>">>

\* permit: the task's _permit, held until the task ends; peers: the
\* connections passed as s1 and s2 (here the first two ever accepted)
NewTask == [status |-> "Spawned", permit |-> TRUE, state |-> GameState_new,
            inbox |-> [p \in {0, 1} |-> <<>>], closed |-> [p \in {0, 1} |-> FALSE],
            peers |-> <<0, 1>>]

\* the task after run_game has returned: its locals and sockets are dropped
EndedTask == [status |-> "Terminated", permit |-> FALSE, state |-> GameState_new,
              inbox |-> [p \in {0, 1} |-> <<>>], closed |-> [p \in {0, 1} |-> TRUE],
              peers |-> <<0, 1>>]

\* task t after it has ended: which connections it served stays on record
ended(t) == [EndedTask EXCEPT !.peers = t.peers]

\* mutant: the read of a closed stream never resolves
next_line_no_eof(t, p) ==
    IF t.inbox[p] # <<>>
    THEN IF Head(t.inbox[p]) = InvalidUtf8 THEN [kind |-> "Err", line |-> <<>>]
         ELSE [kind |-> "Line", line |-> Head(t.inbox[p])]
    ELSE [kind |-> "Pending", line |-> <<>>]

\* mutant: a blank line is taken for the end of the stream
next_line_blank_eof(t, p) ==
    IF t.inbox[p] # <<>>
    THEN IF Head(t.inbox[p]) = InvalidUtf8 THEN [kind |-> "Err", line |-> <<>>]
         ELSE IF Head(t.inbox[p]) = <<>> THEN [kind |-> "Eof", line |-> <<>>]
         ELSE [kind |-> "Line", line |-> Head(t.inbox[p])]
    ELSE IF t.closed[p] THEN [kind |-> "Eof", line |-> <<>>]
    ELSE [kind |-> "Pending", line |-> <<>>]

\* what lines<p>.next_line() resolves to, if it is ready
next_line(t, p) ==
    IF t.inbox[p] # <<>>
    THEN IF Head(t.inbox[p]) = InvalidUtf8 THEN [kind |-> "Err", line |-> <<>>]
         ELSE [kind |-> "Line", line |-> Head(t.inbox[p])]
    ELSE IF t.closed[p] THEN [kind |-> "Eof", line |-> <<>>]
    ELSE [kind |-> "Pending", line |-> <<>>]

\* what `let _ = w.write_all(..)` can meet while the writes of `sent` are
\* awaited: a write to a peer that has closed its socket may return Err or
\* still be taken by the kernel; TRUE when some write returned Err
write_all_failed(t, sent) ==
    IF \E i \in 1..Len(sent) : t.closed[sent[i].to] THEN BOOLEAN ELSE {FALSE}

\* mutant: DISCONNECTED is written to the peer whose read failed
disconnected_to_failed(p) == <<Msg(p, <<"DISCONNECTED">>)>>

\* the write of a select! arm whose read gave Ok(None) or Err on player p
disconnected(p) == <<Msg(1 - p, <<"DISCONNECTED">>)>>

\* mutant: the turn signals are written before the STATE lines
broadcast_signals_first(s) ==
    <<Msg(0, <<"OK">>), Msg(1, <<"OK">>)>>
    \o (IF s.turn = 0
        THEN <<Msg(0, <<"YOUR_TURN">>), Msg(1, <<"OPPONENT_TURN">>)>>
        ELSE <<Msg(0, <<"OPPONENT_TURN">>), Msg(1, <<"YOUR_TURN">>)>>)
    \o <<Msg(0, state_line(s)), Msg(1, state_line(s))>>

\* the writes of the Ok branch, in the order the code awaits them
broadcast(s) ==
    <<Msg(0, <<"OK">>), Msg(1, <<"OK">>), Msg(0, state_line(s)), Msg(1, state_line(s))>>
    \o (IF s.turn = 0
        THEN <<Msg(0, <<"YOUR_TURN">>), Msg(1, <<"OPPONENT_TURN">>)>>
        ELSE <<Msg(0, <<"OPPONENT_TURN">>), Msg(1, <<"YOUR_TURN">>)>>)

\* mutant: the session leaves the turn check to place / shoot
out_of_turn_skipped(state, player) == FALSE

\* if player != state.turn
out_of_turn(state, player) == player # state.turn

\* mutant: the rejection goes to both peers
reply_err_both(player, reason) ==
    <<Msg(player, <<"ERROR", reason>>), Msg(1 - player, <<"ERROR", reason>>)>>

\* the write of the Err branch: ERROR <reason> to the sender
reply_err(player, reason) == <<Msg(player, <<"ERROR", reason>>)>>

\* mutant: a line that does not decode is only logged
run_game_line_silent(state, player, line) ==
    IF out_of_turn(state, player)
    THEN [state |-> state, result |-> "not your turn", warn |-> "",
          sent |-> <<Msg(player, <<"ERROR", "not your turn">>)>>]
    ELSE LET cmd == ClientCmd_parse(line)
             r == IF cmd = None THEN Err(state, "unrecognised command")
                  ELSE IF cmd[1].cmd = "Place"
                       THEN place(state, player, cmd[1].x, cmd[1].y, cmd[1].radius)
                       ELSE shoot(state, player, cmd[1].index, cmd[1].dx, cmd[1].dy,
                                  cmd[1].force)
             warn == IF cmd = None THEN "InvalidCmd" ELSE ""
         IN IF r.result = Ok_
            THEN [state |-> r.state, result |-> r.result, warn |-> warn,
                  sent |-> broadcast(r.state)]
            ELSE [state |-> r.state, result |-> r.result, warn |-> warn,
                  sent |-> IF cmd = None THEN <<>> ELSE reply_err(player, r.result)]

\* the body of the loop once a line has been read from `player`:
\* the new state, the result, what was logged at warn level, and the writes
run_game_line(state, player, line) ==
    IF out_of_turn(state, player)
    THEN [state |-> state, result |-> "not your turn", warn |-> "",
          sent |-> <<Msg(player, <<"ERROR", "not your turn">>)>>]
    ELSE LET cmd == ClientCmd_parse(line)
             r == IF cmd = None THEN Err(state, "unrecognised command")
                  ELSE IF cmd[1].cmd = "Place"
                       THEN place(state, player, cmd[1].x, cmd[1].y, cmd[1].radius)
                       ELSE shoot(state, player, cmd[1].index, cmd[1].dx, cmd[1].dy,
                                  cmd[1].force)
             warn == IF cmd = None THEN "InvalidCmd" ELSE ""
         IN IF r.result = Ok_
            THEN [state |-> r.state, result |-> r.result, warn |-> warn,
                  sent |-> broadcast(r.state)]
            ELSE [state |-> r.state, result |-> r.result, warn |-> warn,
                  sent |-> reply_err(player, r.result)]

---------------------------------------------------------------------------
(* Cut-offs that keep the model finite *)

InGrid(a) == a.nan \/ (a.v >= -MaxCoord /\ a.v <= MaxCoord)

WithinBounds(s) ==
    /\ Len(s.pieces) <= MaxPieces
    /\ \A i \in 1..Len(s.pieces) : InGrid(s.pieces[i].x) /\ InGrid(s.pieces[i].y)

\* wfail: some write_all of the step returned Err (the code discards it)
NoStep == [op |-> "init", g |-> 0, player |-> 0, line |-> <<>>, result |-> "",
           warn |-> "", sent |-> <<>>, wfail |-> FALSE]

---------------------------------------------------------------------------
(* Direct calls on a GameState *)

CallPlace(owner, x, y, radius) ==
    LET r == place(gs, owner, x, y, radius) IN
    /\ r.result = Ok_ => (WithinBounds(r.state) /\ placed + shots < MaxMoves)
    /\ gs' = r.state
    /\ placed' = IF r.result = Ok_ THEN placed + 1 ELSE placed
    /\ step' = [NoStep EXCEPT !.op = "place", !.player = owner, !.result = r.result]
    /\ UNCHANGED <<shots, args, slots, acceptPc, game_counter, tasks, conns, clients, wire, ents>>

CallShoot(owner, index, dx, dy, force) ==
    LET r == shoot(gs, owner, index, dx, dy, force) IN
    /\ r.result = Ok_ => (WithinBounds(r.state) /\ placed + shots < MaxMoves)
    /\ gs' = r.state
    /\ shots' = IF r.result = Ok_ THEN shots + 1 ELSE shots
    /\ step' = [NoStep EXCEPT !.op = "shoot", !.player = owner, !.result = r.result]
    /\ UNCHANGED <<placed, args, slots, acceptPc, game_counter, tasks, conns, clients, wire, ents>>

---------------------------------------------------------------------------
(* The clients of a session.  A client has one line in flight at a time:  *)
(* the session reads a peer's lines one by one and in order, so a longer   *)
(* queue only delays them.                                                 *)

ClientSend(g, p, line) ==
    /\ g \in DOMAIN tasks
    /\ tasks[g].status \in {"Spawned", "Active"}
    /\ ~tasks[g].closed[p]
    /\ tasks[g].inbox[p] = <<>>
    /\ tasks' = [tasks EXCEPT ![g].inbox[p] = Append(@, line)]
    /\ step' = [NoStep EXCEPT !.op = "send", !.g = g, !.player = p, !.line = line]
    /\ UNCHANGED <<gs, placed, shots, args, slots, acceptPc, game_counter, conns, clients, wire, ents>>

\* the client closes its socket (or dies): end of stream after what it sent
ClientClose(g, p) ==
    /\ g \in DOMAIN tasks
    /\ tasks[g].status \in {"Spawned", "Active"}
    /\ ~tasks[g].closed[p]
    /\ tasks' = [tasks EXCEPT ![g].closed[p] = TRUE]
    /\ step' = [NoStep EXCEPT !.op = "close", !.g = g, !.player = p]
    /\ UNCHANGED <<gs, placed, shots, args, slots, acceptPc, game_counter, conns, clients, wire, ents>>

---------------------------------------------------------------------------
(* The terminal client (src/src/bin/client.rs): user input *)

\* to_ascii_uppercase on the keywords the model types
to_ascii_uppercase(t) ==
    CASE t = "place" -> "PLACE"
      [] t = "shoot" -> "SHOOT"
      [] t = "help" -> "HELP"
      [] t = "jump" -> "JUMP"
      [] OTHER -> t

\* {} of an f32 on the grid
fmt_display(a) == IF a.nan THEN "NaN" ELSE ToString(a.v)

CmdErr(reason) == [ok |-> FALSE, reason |-> reason]

\* Cmd::parse: a line typed by the player
Cmd_parse(raw) ==
    LET kw == IF Len(raw) = 0 THEN "" ELSE to_ascii_uppercase(raw[1])
        num(i) == IF Len(raw) >= i THEN parse_f32(raw[i]) ELSE None
    IN IF kw = "PLACE" THEN
           IF num(2) = None \/ num(3) = None \/ num(4) = None
           THEN CmdErr("missing or not a number")
           ELSE IF fle(num(4)[1], F(0)) THEN CmdErr("radius must be > 0")
           ELSE [ok |-> TRUE, cmd |-> "Place", x |-> num(2)[1], y |-> num(3)[1],
                 radius |-> num(4)[1]]
       ELSE IF kw = "SHOOT" THEN
           IF Len(raw) < 2 THEN CmdErr("missing piece index")
           ELSE IF parse_usize(raw[2]) = None
           THEN CmdErr("piece index must be a whole number")
           ELSE IF num(3) = None \/ num(4) = None \/ num(5) = None
           THEN CmdErr("missing or not a number")
           ELSE IF fle(num(5)[1], F(0)) THEN CmdErr("force must be > 0")
           ELSE [ok |-> TRUE, cmd |-> "Shoot", index |-> parse_usize(raw[2])[1],
                 dx |-> num(3)[1], dy |-> num(4)[1], force |-> num(5)[1]]
       ELSE IF kw = "" THEN CmdErr("empty input")
       ELSE CmdErr("unknown command")

\* Cmd::to_wire
to_wire(c) ==
    IF c.cmd = "Place"
    THEN <<"PLACE", fmt_display(c.x), fmt_display(c.y), fmt_display(c.radius)>>
    ELSE <<"SHOOT", ToString(c.index), fmt_display(c.dx), fmt_display(c.dy),
           fmt_display(c.force)>>

---------------------------------------------------------------------------
(* The run_game task *)

\* the lines among `sent` that are written to peer p, in order
RECURSIVE lines_to(_, _)
lines_to(sent, p) ==
    IF sent = <<>> THEN <<>>
    ELSE IF Head(sent).to = p THEN <<Head(sent).msg>> \o lines_to(Tail(sent), p)
    ELSE lines_to(Tail(sent), p)

\* the writes of session 0 reach its terminal clients, if it has them and
\* they are still running, in the order they were written
deliver(sent) ==
    IF clients = <<>> THEN wire
    ELSE [p \in {0, 1} |-> IF clients[p].up THEN wire[p] \o lines_to(sent, p) ELSE wire[p]]

\* mutant: the turn order is announced the other way round
ready_swapped ==
    <<Msg(0, <<"READY", "0">>), Msg(0, <<"OPPONENT_TURN">>),
      Msg(1, <<"READY", "1">>), Msg(1, <<"YOUR_TURN">>)>>

\* "READY 0\nYOUR_TURN\n" to w1, then "READY 1\nOPPONENT_TURN\n" to w2
ready ==
    <<Msg(0, <<"READY", "0">>), Msg(0, <<"YOUR_TURN">>),
      Msg(1, <<"READY", "1">>), Msg(1, <<"OPPONENT_TURN">>)>>

\* run_game up to the loop: READY / turn order, GameState::new
StartGame(g) ==
    /\ g \in DOMAIN tasks
    /\ tasks[g].status = "Spawned"
    /\ tasks' = [tasks EXCEPT ![g].status = "Active", ![g].state = GameState_new]
    /\ \E wf \in write_all_failed(tasks[g], ready) :
          step' = [NoStep EXCEPT !.op = "start", !.g = g, !.sent = ready, !.wfail = wf]
    /\ wire' = deliver(ready)
    /\ UNCHANGED <<gs, placed, shots, args, slots, acceptPc, game_counter, conns, clients, ents>>

\* mutant: a write that returns Err ends the task, as `?` would
RecvLine_bail(g, p) ==
    /\ g \in DOMAIN tasks
    /\ tasks[g].status = "Active"
    /\ next_line(tasks[g], p).kind = "Line"
    /\ LET line == next_line(tasks[g], p).line
           r == run_game_line(tasks[g].state, p, line)
       IN /\ WithinBounds(r.state)
          /\ \E wf \in write_all_failed(tasks[g], r.sent) :
                /\ tasks' = IF wf THEN [tasks EXCEPT ![g] = ended(tasks[g])]
                            ELSE [tasks EXCEPT ![g].state = r.state,
                                               ![g].inbox[p] = Tail(@)]
                /\ slots' = IF wf THEN slots + 1 ELSE slots
                /\ step' = [op |-> "line", g |-> g, player |-> p, line |-> line,
                            result |-> r.result, warn |-> r.warn, sent |-> r.sent,
                            wfail |-> wf]
          /\ wire' = deliver(r.sent)
    /\ UNCHANGED <<gs, placed, shots, args, acceptPc, game_counter, conns, clients, ents>>

\* select! resolves to Ok(Some(line)) from player p
RecvLine(g, p) ==
    /\ g \in DOMAIN tasks
    /\ tasks[g].status = "Active"
    /\ next_line(tasks[g], p).kind = "Line"
    /\ LET line == next_line(tasks[g], p).line
           r == run_game_line(tasks[g].state, p, line)
       IN /\ WithinBounds(r.state)
          /\ tasks' = [tasks EXCEPT ![g].state = r.state, ![g].inbox[p] = Tail(@)]
          /\ \E wf \in write_all_failed(tasks[g], r.sent) :
                step' = [op |-> "line", g |-> g, player |-> p, line |-> line,
                         result |-> r.result, warn |-> r.warn, sent |-> r.sent,
                         wfail |-> wf]
          /\ wire' = deliver(r.sent)
    /\ UNCHANGED <<gs, placed, shots, args, slots, acceptPc, game_counter, conns, clients, ents>>

\* the line of player p that the task has not read when it ends (<<>> if
\* none): it is dropped with the task's reader
unread(t, p) == IF t.inbox[p] # <<>> THEN Head(t.inbox[p]) ELSE <<>>

\* mutant: the permit is given back only when it is peer 0 that went away
PeerGone_leak(g, p) ==
    /\ g \in DOMAIN tasks
    /\ tasks[g].status = "Active"
    /\ next_line(tasks[g], p).kind \in {"Eof", "Err"}
    /\ tasks' = [tasks EXCEPT ![g] = ended(tasks[g])]
    /\ slots' = IF p = 0 THEN slots + 1 ELSE slots
    /\ \E wf \in write_all_failed(tasks[g], disconnected(p)) :
          step' = [NoStep EXCEPT !.op = "gone", !.g = g, !.player = p,
                                 !.result = next_line(tasks[g], p).kind,
                                 !.line = unread(tasks[g], 1 - p),
                                 !.sent = disconnected(p), !.wfail = wf]
    /\ wire' = deliver(disconnected(p))
    /\ UNCHANGED <<gs, placed, shots, args, acceptPc, game_counter, conns, clients, ents>>

\* select! resolves to Ok(None) or Err on player p: DISCONNECTED to the other
\* peer, break, GameEnded; the task ends and its permit is dropped
PeerGone(g, p) ==
    /\ g \in DOMAIN tasks
    /\ tasks[g].status = "Active"
    /\ next_line(tasks[g], p).kind \in {"Eof", "Err"}
    /\ tasks' = [tasks EXCEPT ![g] = ended(tasks[g])]
    /\ slots' = slots + 1
    /\ \E wf \in write_all_failed(tasks[g], disconnected(p)) :
          step' = [NoStep EXCEPT !.op = "gone", !.g = g, !.player = p,
                                 !.result = next_line(tasks[g], p).kind,
                                 !.line = unread(tasks[g], 1 - p),
                                 !.sent = disconnected(p), !.wfail = wf]
    /\ wire' = deliver(disconnected(p))
    /\ UNCHANGED <<gs, placed, shots, args, acceptPc, game_counter, conns, clients, ents>>

---------------------------------------------------------------------------
(* The terminal client: the select! loop of main (src/src/bin/client.rs).  *)
(* A client is [player_id, my_turn, up]; up is FALSE once the loop has     *)
(* been left (the process ends and its socket is closed).  wire[p] holds   *)
(* the lines the server has written to client p and p has not read yet.    *)

NewClient == [player_id |-> 0, my_turn |-> FALSE, up |-> TRUE]

\* break: the process ends, its socket is closed, what it had not read is lost
client_break(p) ==
    /\ clients' = [clients EXCEPT ![p].up = FALSE]
    /\ wire' = [wire EXCEPT ![p] = <<>>]
    /\ tasks' = [tasks EXCEPT ![0].closed[p] = TRUE]

\* mutant: every client takes itself for player 0
on_server_msg_no_id(c, msg) ==
    CASE msg.kind = "YourTurn" -> [c EXCEPT !.my_turn = TRUE]
      [] msg.kind = "OpponentTurn" -> [c EXCEPT !.my_turn = FALSE]
      [] OTHER -> c

\* match &msg: what a message from the server does to player_id and my_turn
\* (Error, Ok, State, Waiting and Unknown only print)
on_server_msg(c, msg) ==
    CASE msg.kind = "Ready" -> [c EXCEPT !.player_id = msg.player_id]
      [] msg.kind = "YourTurn" -> [c EXCEPT !.my_turn = TRUE]
      [] msg.kind = "OpponentTurn" -> [c EXCEPT !.my_turn = FALSE]
      [] OTHER -> c

\* the arm `result = server_lines.next_line()`: Ok(Some(raw)) while lines
\* are waiting; Ok(None), and break, once the server has dropped the socket
TermRecv(p) ==
    /\ clients[p].up
    /\ wire[p] # <<>> \/ tasks[0].status = "Terminated"
    /\ IF wire[p] = <<>>
       THEN /\ client_break(p)
            /\ step' = [NoStep EXCEPT !.op = "client_exit", !.player = p,
                                      !.result = "Disconnected from server"]
       ELSE LET raw == Head(wire[p])
                msg == ServerMsg_parse(raw)
            IN /\ IF msg.kind = "Disconnected"
                  THEN client_break(p)
                  ELSE /\ clients' = [clients EXCEPT ![p] = on_server_msg(clients[p], msg)]
                       /\ wire' = [wire EXCEPT ![p] = Tail(@)]
                       /\ UNCHANGED tasks
               /\ step' = [NoStep EXCEPT !.op = "client_recv", !.player = p, !.line = raw,
                                         !.result = msg.kind]
    /\ UNCHANGED <<gs, placed, shots, args, slots, acceptPc, game_counter, conns, ents>>

\* what writer.write_all(wire) can return: Err only once the server has
\* dropped the socket
client_write_fails == IF tasks[0].status = "Terminated" THEN BOOLEAN ELSE {FALSE}

\* stdin_lines.next_line(), if my_turn, gives Ok(Some(raw)): raw is the
\* sequence of the tokens of the trimmed line
TermInput(p, raw) ==
    /\ clients[p].up
    /\ clients[p].my_turn
    /\ LET kw == IF raw = <<>> THEN "" ELSE to_ascii_uppercase(raw[1])
           cmd == Cmd_parse(raw)
       IN IF raw = <<>> \/ (Len(raw) = 1 /\ kw = "HELP") \/ ~cmd.ok
          THEN /\ step' = [NoStep EXCEPT !.op = "client_input", !.player = p, !.line = raw,
                                         !.result = IF raw = <<>> THEN "empty"
                                                    ELSE IF kw = "HELP" THEN "help"
                                                    ELSE cmd.reason]
               /\ UNCHANGED <<tasks, clients, wire>>
          ELSE \E failed \in client_write_fails :
                  IF failed
                  THEN /\ client_break(p)
                       /\ step' = [NoStep EXCEPT !.op = "client_exit", !.player = p,
                                                 !.line = raw, !.result = "Failed to send"]
                  ELSE /\ tasks' = IF tasks[0].status = "Terminated" THEN tasks
                                   ELSE [tasks EXCEPT ![0].inbox[p] = Append(@, to_wire(cmd))]
                       /\ clients' = [clients EXCEPT ![p].my_turn = FALSE]
                       /\ wire' = wire
                       /\ step' = [NoStep EXCEPT !.op = "client_send", !.player = p,
                                                 !.line = to_wire(cmd)]
    /\ UNCHANGED <<gs, placed, shots, args, slots, acceptPc, game_counter, conns, ents>>

\* stdin_lines.next_line(), if my_turn, gives Ok(None) or Err: "Input closed."
TermInputClosed(p) ==
    /\ clients[p].up
    /\ clients[p].my_turn
    /\ client_break(p)
    /\ step' = [NoStep EXCEPT !.op = "client_exit", !.player = p, !.result = "Input closed"]
    /\ UNCHANGED <<gs, placed, shots, args, slots, acceptPc, game_counter, conns, ents>>

---------------------------------------------------------------------------
(* main: the accept loop *)

Max(a, b) == IF a >= b THEN a ELSE b

\* let max_games = args.max_games.max(1)
max_games == Max(args.max_games, 1)

\* the game_id of the iteration in progress
game_id == game_counter - 1

\* mutant: the loop goes on without waiting for a permit
Acquire_nowait ==
    /\ acceptPc = "acquire"
    /\ game_counter < MaxGameId
    /\ slots' = slots - 1
    /\ game_counter' = game_counter + 1
    /\ acceptPc' = "accept1"
    /\ step' = [NoStep EXCEPT !.op = "acquire", !.g = game_counter]
    /\ UNCHANGED <<gs, placed, shots, args, tasks, conns, clients, wire, ents>>

\* slots.acquire_owned() resolves; game_counter.fetch_add(1)
Acquire ==
    /\ acceptPc = "acquire"
    /\ slots > 0
    /\ game_counter < MaxGameId
    /\ slots' = slots - 1
    /\ game_counter' = game_counter + 1
    /\ acceptPc' = "accept1"
    /\ step' = [NoStep EXCEPT !.op = "acquire", !.g = game_counter]
    /\ UNCHANGED <<gs, placed, shots, args, tasks, conns, clients, wire, ents>>

\* the first accept succeeds: WAITING to s1
Accept1Ok ==
    /\ acceptPc = "accept1"
    /\ acceptPc' = "accept2"
    /\ conns' = [accepted |-> conns.accepted + 1, s1 |-> Some(conns.accepted)]
    /\ step' = [NoStep EXCEPT !.op = "accept1", !.g = game_id,
                              !.sent = <<Msg(0, <<"WAITING">>)>>]
    /\ UNCHANGED <<gs, placed, shots, args, slots, game_counter, tasks, clients, wire, ents>>

\* mutant: the first accept's error path keeps the permit
Accept1Err_leak ==
    /\ acceptPc = "accept1"
    /\ acceptPc' = "acquire"
    /\ step' = [NoStep EXCEPT !.op = "accept1_err", !.g = game_id,
                              !.warn = "AcceptError"]
    /\ UNCHANGED <<gs, placed, shots, args, slots, game_counter, tasks, conns, clients, wire, ents>>

\* the first accept fails: drop(permit); continue
Accept1Err ==
    /\ acceptPc = "accept1"
    /\ slots' = slots + 1
    /\ acceptPc' = "acquire"
    /\ step' = [NoStep EXCEPT !.op = "accept1_err", !.g = game_id,
                              !.warn = "AcceptError"]
    /\ UNCHANGED <<gs, placed, shots, args, game_counter, tasks, conns, clients, wire, ents>>

\* mutant: the two connections are handed to run_game the other way round
Accept2Ok_swapped ==
    /\ acceptPc = "accept2"
    /\ tasks' = (game_id :> [NewTask EXCEPT !.peers = <<conns.accepted, conns.s1[1]>>])
                @@ tasks
    /\ conns' = [accepted |-> conns.accepted + 1, s1 |-> None]
    /\ acceptPc' = "acquire"
    /\ step' = [NoStep EXCEPT !.op = "spawn", !.g = game_id]
    /\ UNCHANGED <<gs, placed, shots, args, slots, game_counter, clients, wire, ents>>

\* the second accept succeeds: tokio::spawn moves the permit, s1 and s2 into
\* the task, which calls run_game(s1, a1, s2, a2, ..)
Accept2Ok ==
    /\ acceptPc = "accept2"
    /\ tasks' = (game_id :> [NewTask EXCEPT !.peers = <<conns.s1[1], conns.accepted>>])
                @@ tasks
    /\ conns' = [accepted |-> conns.accepted + 1, s1 |-> None]
    /\ acceptPc' = "acquire"
    /\ step' = [NoStep EXCEPT !.op = "spawn", !.g = game_id]
    /\ UNCHANGED <<gs, placed, shots, args, slots, game_counter, clients, wire, ents>>

\* mutant: the permit is not dropped on the error path
Accept2Err_leak ==
    /\ acceptPc = "accept2"
    /\ acceptPc' = "acquire"
    /\ conns' = [conns EXCEPT !.s1 = None]
    /\ step' = [NoStep EXCEPT !.op = "accept2_err", !.g = game_id,
                              !.warn = "AcceptError"]
    /\ UNCHANGED <<gs, placed, shots, args, slots, game_counter, tasks, clients, wire, ents>>

\* the second accept fails: drop(permit); continue (s1 is dropped too)
Accept2Err ==
    /\ acceptPc = "accept2"
    /\ slots' = slots + 1
    /\ acceptPc' = "acquire"
    /\ conns' = [conns EXCEPT !.s1 = None]
    /\ step' = [NoStep EXCEPT !.op = "accept2_err", !.g = game_id,
                              !.warn = "AcceptError"]
    /\ UNCHANGED <<gs, placed, shots, args, game_counter, tasks, clients, wire, ents>>

---------------------------------------------------------------------------
(* The engine variant (src/src/game.rs).  Entities lie on one line (y = 0), *)
(* so that delta / dist is exactly +1 or -1.  A position or radius is an   *)
(* integer number of 1/Scale units: halving a penetration is then exact, as *)
(* it is on f32, as long as the position has low bits to spare.  Entities  *)
(* are spawned with Velocity ZERO and nothing is shot, so integrate_motion *)
(* leaves every position as it is and the impulse branch is never taken.   *)

MaxPairs == (MaxEntities * (MaxEntities - 1)) \div 2
Scale == 2 ^ (2 * MaxPairs)

length(delta) == IF delta < 0 THEN -delta ELSE delta

\* delta / dist for dist > 0
normal_of(delta) == IF delta < 0 THEN -1 ELSE 1

\* the body of the while loop for the combination (i, j)
resolve_pair(es, i, j) ==
    LET delta == es[j].pos - es[i].pos
        dist == length(delta)
        min_dist == es[i].radius + es[j].radius
    IN IF dist < min_dist /\ dist > 0
       THEN LET normal == normal_of(delta)
                penetration == min_dist - dist
            IN [es EXCEPT ![i].pos = @ - normal * (penetration \div 2),
                          ![j].pos = @ + normal * (penetration \div 2)]
       ELSE es

\* iter_combinations_mut from the combination (i, j) on: (1,2), (1,3), ..,
\* (2,3), .. in the order of the query, each seeing the corrections before it
RECURSIVE resolve_from(_, _, _)
resolve_from(es, i, j) ==
    IF j > Len(es) THEN es
    ELSE LET done == resolve_pair(es, i, j)
         IN IF j < Len(es) THEN resolve_from(done, i, j + 1)
            ELSE resolve_from(done, i + 1, i + 2)

\* process_commands on GameCommand::PlacePiece: the entity is spawned where
\* it is asked for, whatever is there already
PlacePiece(position, radius) ==
    /\ Len(ents) < MaxEntities
    /\ ents' = Append(ents, [pos |-> position, radius |-> radius])
    /\ step' = [NoStep EXCEPT !.op = "spawn_piece"]
    /\ UNCHANGED <<gs, placed, shots, args, slots, acceptPc, game_counter, tasks, conns, clients, wire>>

\* every halving of one pass is exact: a pass takes at most one low bit of a
\* position per combination
Exact(es) == \A i \in 1..Len(es) : es[i].pos % (2 ^ MaxPairs) = 0

\* one FixedUpdate: integrate_motion (velocities are zero), then
\* resolve_collisions over all combinations
ResolveCollisions ==
    /\ Exact(ents)
    /\ ents' = resolve_from(ents, 1, 2)
    /\ step' = [NoStep EXCEPT !.op = "resolve"]
    /\ UNCHANGED <<gs, placed, shots, args, slots, acceptPc, game_counter, tasks, conns, clients, wire>>

---------------------------------------------------------------------------
(* Inputs *)

Players == {0, 1}
PlaceXs == {F(0), F(2), F(3), NaN}
PlaceYs == {F(0)}
Radii == {F(-1), F(0), F(1), NaN}
Indexes == 0..MaxPieces
Dirs == {<<F(0), F(0)>>, <<F(-2), F(0)>>, <<F(0), F(2)>>, <<NaN, F(0)>>}
Forces == {F(1), F(-2)}

\* lines a client of the session specification may send
Lines == {
    <<"PLACE", "0", "0", "1">>,
    <<"PLACE", "2", "0", "1">>,
    <<"PLACE", "1", "0", "1">>,
    <<"PLACE", "0", "0", "0">>,
    <<"SHOOT", "0", "1", "0", "2">>,
    <<"SHOOT", "0", "0", "0", "1">>,
    <<"SHOOT", "5", "0", "1", "1">>,
    <<"SHOOT", "-1", "1", "0", "1">>,
    <<"PLACE", "0", "0">>,
    <<"PLACE", "x", "0", "1">>,
    <<"place", "0", "0", "1">>,
    <<>>,
    InvalidUtf8 }

\* lines the clients of the server specification send: player 0 a line that
\* does not decode, player 1 a line that is not UTF-8
ServerLines(p) == IF p = 0 THEN { <<"HELLO">> } ELSE { InvalidUtf8 }

---------------------------------------------------------------------------
(* Specifications *)

\* a GameState on its own, called directly
InitGame ==
    /\ gs = GameState_new
    /\ placed = 0
    /\ shots = 0
    /\ args = [max_games |-> 1]
    /\ slots = 1
    /\ acceptPc = "acquire"
    /\ game_counter = 0
    /\ tasks = <<>>
    /\ step = NoStep
    /\ conns = [accepted |-> 0, s1 |-> None]
    /\ clients = <<>>
    /\ wire = <<>>
    /\ ents = <<>>

NextGame ==
    \/ \E o \in Players, x \in PlaceXs, y \in PlaceYs, r \in Radii : CallPlace(o, x, y, r)
    \/ \E o \in Players, i \in Indexes, d \in Dirs, f \in Forces :
          CallShoot(o, i, d[1], d[2], f)

SpecGame == InitGame /\ [][NextGame]_vars

\* one session, from the moment main has spawned it
InitSession ==
    /\ gs = GameState_new
    /\ placed = 0
    /\ shots = 0
    /\ args = [max_games |-> 1]
    /\ slots = 0
    /\ acceptPc = "acquire"
    /\ game_counter = 1
    /\ tasks = (0 :> NewTask)
    /\ step = [NoStep EXCEPT !.op = "spawn"]
    /\ conns = [accepted |-> 2, s1 |-> None]
    /\ clients = <<>>
    /\ wire = <<>>
    /\ ents = <<>>

NextSession ==
    \/ StartGame(0)
    \/ \E p \in Players, l \in Lines : ClientSend(0, p, l)
    \/ \E p \in Players : ClientClose(0, p)
    \/ \E p \in Players : RecvLine(0, p)
    \/ \E p \in Players : PeerGone(0, p)

SpecSession == InitSession /\ [][NextSession]_vars

\* what the players type at the prompt
TypedLines == {
    <<"place", "0", "0", "1">>,
    <<"PLACE", "2", "0", "1">>,
    <<"place", "0", "0", "0">>,
    <<"place", "0", "0", "NaN">>,
    <<"shoot", "0", "-2", "0", "1">>,
    <<"shoot", "0", "0", "0", "1">>,
    <<"shoot", "1", "0", "2", "1">>,
    <<"shoot", "0", "1", "0", "-2">>,
    <<"shoot", "x", "1", "0", "1">>,
    <<"place", "0", "0">>,
    <<>>,
    <<"help">>,
    <<"jump">> }

\* one session played by two terminal clients, from the moment main has
\* spawned it: the first client has been sent WAITING
InitTerminal ==
    /\ gs = GameState_new
    /\ placed = 0
    /\ shots = 0
    /\ args = [max_games |-> 1]
    /\ slots = 0
    /\ acceptPc = "acquire"
    /\ game_counter = 1
    /\ tasks = (0 :> NewTask)
    /\ step = [NoStep EXCEPT !.op = "spawn"]
    /\ conns = [accepted |-> 2, s1 |-> None]
    /\ clients = [p \in {0, 1} |-> NewClient]
    /\ wire = [p \in {0, 1} |-> IF p = 0 THEN << <<"WAITING">> >> ELSE <<>>]
    /\ ents = <<>>

NextTerminal ==
    \/ StartGame(0)
    \/ \E p \in Players : RecvLine(0, p)
    \/ \E p \in Players : PeerGone(0, p)
    \/ \E p \in Players : TermRecv(p)
    \/ \E p \in Players, raw \in TypedLines : TermInput(p, raw)
    \/ \E p \in Players : TermInputClosed(p)

SpecTerminal == InitTerminal /\ [][NextTerminal]_vars

\* where pieces are asked to be placed, and with which radius
SpawnPositions == {0, Scale, 2 * Scale, 3 * Scale}
SpawnRadii == {Scale, 2 * Scale}

\* the engine on its own: an empty world
InitEngine ==
    /\ gs = GameState_new
    /\ placed = 0
    /\ shots = 0
    /\ args = [max_games |-> 1]
    /\ slots = 1
    /\ acceptPc = "acquire"
    /\ game_counter = 0
    /\ tasks = <<>>
    /\ step = NoStep
    /\ conns = [accepted |-> 0, s1 |-> None]
    /\ clients = <<>>
    /\ wire = <<>>
    /\ ents = <<>>

NextEngine ==
    \/ \E x \in SpawnPositions, r \in SpawnRadii : PlacePiece(x, r)
    \/ ResolveCollisions

SpecEngine == InitEngine /\ [][NextEngine]_vars

\* the whole server: main and the tasks it spawns
InitServer ==
    /\ gs = GameState_new
    /\ placed = 0
    /\ shots = 0
    /\ args \in [max_games : 0..MaxGamesArg]
    /\ slots = max_games
    /\ acceptPc = "acquire"
    /\ game_counter = 0
    /\ tasks = <<>>
    /\ step = NoStep
    /\ conns = [accepted |-> 0, s1 |-> None]
    /\ clients = <<>>
    /\ wire = <<>>
    /\ ents = <<>>

NextServer ==
    \/ Acquire
    \/ Accept1Ok
    \/ Accept1Err
    \/ Accept2Ok
    \/ Accept2Err
    \/ \E g \in 0..(MaxGameId - 1) : StartGame(g)
    \/ \E g \in DOMAIN tasks, p \in Players :
          \E l \in ServerLines(p) : tasks[g].status = "Active" /\ ClientSend(g, p, l)
    \/ \E g \in 0..(MaxGameId - 1), p \in Players : ClientClose(g, p)
    \/ \E g \in 0..(MaxGameId - 1), p \in Players : RecvLine(g, p)
    \/ \E g \in 0..(MaxGameId - 1), p \in Players : PeerGone(g, p)

SpecServer == InitServer /\ [][NextServer]_vars

TypeOK ==
    /\ gs.turn \in {0, 1}
    /\ slots \in 0..max_games
    /\ acceptPc \in {"acquire", "accept1", "accept2"}

---------------------------------------------------------------------------
(* Claims about GameState, checked under SpecGame *)

\* C1: from a fresh GameState, after any sequence of place / shoot calls the
\* turn is 0 or 1 and equals the number of accepted calls mod 2; an accepted
\* call is made by the player holding the turn and hands the turn to the other
\* player, so nobody has two accepted moves in a row.
C1_TurnAlternates ==
    /\ [](gs.turn \in {0, 1} /\ gs.turn = (placed + shots) % 2)
    /\ [][step'.op \in {"place", "shoot"} /\ step'.result = Ok_
            => /\ step'.player = gs.turn
               /\ gs'.turn = 1 - gs.turn
               /\ placed' + shots' = placed + shots + 1]_vars

C1_Witness == placed >= 2 /\ shots >= 1 /\ gs.turn = 1

\* C2: a call that returns a rejection leaves the GameState (piece list and
\* turn) exactly as it was.
C2_RejectionKeepsState ==
    [][step'.op \in {"place", "shoot"} /\ step'.result # Ok_
          => gs' = gs /\ placed' = placed /\ shots' = shots]_vars

C2_Witness ==
    /\ step.op = "shoot"
    /\ step.result = "that piece does not belong to you"
    /\ Len(gs.pieces) = 2

\* centre distance strictly less than the sum of the radii
Overlap(p, q) ==
    LET dx == p.x.v - q.x.v
        dy == p.y.v - q.y.v
        sum == p.radius.v + q.radius.v
    IN /\ ~p.x.nan /\ ~p.y.nan /\ ~p.radius.nan
       /\ ~q.x.nan /\ ~q.y.nan /\ ~q.radius.nan
       /\ sum > 0
       /\ dx * dx + dy * dy < sum * sum

NoOverlap(s) ==
    \A i, j \in 1..Len(s.pieces) : i # j => ~Overlap(s.pieces[i], s.pieces[j])

\* C3 as stated: in every reachable state no two pieces overlap.
C3_NoOverlapEver == NoOverlap(gs)

\* C3, amended: as long as no shoot has been accepted no two pieces overlap;
\* an accepted shoot moves its piece without looking at the others.
C3_NoOverlapBeforeShoot == shots = 0 => NoOverlap(gs)

C3_Witness ==
    /\ shots = 0
    /\ Len(gs.pieces) = 2
    /\ step.op = "place"
    /\ step.result = "overlaps an existing piece"

---------------------------------------------------------------------------
(* Claims about the slot pool and the accept loop, checked under SpecServer *)

\* sessions that have been spawned and have not ended
Running == {g \in DOMAIN tasks : tasks[g].status \in {"Spawned", "Active"}}

\* the permit main holds between acquire_owned and spawn / drop
LoopHolds == IF acceptPc \in {"accept1", "accept2"} THEN 1 ELSE 0

AcceptOps == {"acquire", "accept1", "accept1_err", "spawn", "accept2_err"}

SlotsAccount(max) ==
    /\ slots \in 0..max
    /\ slots + Cardinality(Running) + LoopHolds = max
    /\ Cardinality(Running) <= max

\* C4 as stated: the available slots lie between 0 and the configured maximum
\* and available + held by running sessions + held by the accept loop = the
\* configured maximum, so no more sessions than that run at once.
C4_SlotsConfigured == SlotsAccount(args.max_games)

\* C4, amended: the same with the maximum main uses, which is the configured
\* one raised to 1 when it is configured as 0.
C4_SlotsAccounted == SlotsAccount(max_games)

C4_Witness ==
    /\ max_games >= 2
    /\ Cardinality(Running) = max_games
    /\ slots = 0
    /\ \E g \in DOMAIN tasks : tasks[g].status = "Terminated"

\* C5: the permit acquired for a spawned session is the one the loop held, the
\* session holds it as long as it runs, it goes back to the pool exactly when
\* the session terminates (whichever peer went away, by end of stream or read
\* error), never twice, and a terminated session writes nothing more.
C5_PermitHeldUntilEnd ==
    [][/\ \A g \in DOMAIN tasks' :
            /\ tasks'[g].status \in {"Spawned", "Active"} => tasks'[g].permit
            /\ g \notin DOMAIN tasks =>
                  /\ LoopHolds = 1 /\ LoopHolds' = 0
                  /\ slots' = slots
                  /\ tasks'[g].permit
            /\ g \in DOMAIN tasks =>
                  /\ tasks[g].permit /\ ~tasks'[g].permit =>
                        /\ slots' = slots + 1
                        /\ tasks'[g].status = "Terminated"
                        /\ step'.op = "gone" /\ step'.g = g
                  /\ tasks[g].status # "Terminated" /\ tasks'[g].status = "Terminated" =>
                        tasks[g].permit /\ ~tasks'[g].permit
                  /\ tasks[g].status = "Terminated" =>
                        /\ tasks'[g] = tasks[g]
                        /\ ~(step'.g = g /\ step'.sent # <<>>)
       /\ slots' > slots =>
            \/ step'.op \in {"accept1_err", "accept2_err"}
            \/ Cardinality({g \in DOMAIN tasks : tasks[g].permit /\ ~tasks'[g].permit}) = 1
      ]_vars

C5_Witness ==
    /\ step.op = "gone"
    /\ step.player = 1
    /\ step.result = "Err"
    /\ tasks[step.g].status = "Terminated"
    /\ Running # {}

\* a step taken while `max` sessions run is no step of the accept loop
FullBlocks(max) ==
    Cardinality(Running) = max =>
        /\ acceptPc = "acquire"
        /\ slots = 0
        /\ step'.op \notin AcceptOps

\* C6 as stated: while as many sessions run as the configured maximum, the
\* accept loop waits for a permit and accepts, greets and pairs nobody.
C6_SuspendedAtConfigured == [][FullBlocks(args.max_games)]_vars

\* C6, amended: the same with the maximum main uses (the configured one, or 1
\* when it is configured as 0).
C6_SuspendedWhenFull == [][FullBlocks(max_games)]_vars

C6_Witness ==
    /\ Cardinality(Running) = max_games
    /\ acceptPc = "acquire"
    /\ game_counter < MaxGameId
    /\ step.op \in {"start", "send", "close"}

---------------------------------------------------------------------------
(* Claims about the session loop, checked under SpecSession *)

\* the messages written to peer p, in order
RECURSIVE ToPeer(_, _)
ToPeer(sent, p) ==
    IF sent = <<>> THEN <<>>
    ELSE IF Head(sent).to = p THEN <<Head(sent).msg>> \o ToPeer(Tail(sent), p)
    ELSE ToPeer(Tail(sent), p)

IsTurnSignal(m) == m = <<"YOUR_TURN">> \/ m = <<"OPPONENT_TURN">>

\* a step of an Active session that handles a line
LineStep == step'.op = "line"
Before == tasks[step'.g].state
After == tasks'[step'.g].state

\* C7: a line from the peer that does not hold the turn, parseable or not, is
\* answered with exactly ERROR not your turn to its sender and nothing to the
\* other peer; it is not decoded (no InvalidCmd), the state stays and the
\* session goes on.
C7_OutOfTurn ==
    [][LineStep /\ step'.player # Before.turn =>
          /\ step'.sent = <<Msg(step'.player, <<"ERROR", "not your turn">>)>>
          /\ ToPeer(step'.sent, 1 - step'.player) = <<>>
          /\ step'.warn = ""
          /\ After = Before
          /\ tasks'[step'.g].status = "Active"]_vars

C7_Witness ==
    /\ step.op = "line"
    /\ step.result = "not your turn"
    /\ step.player = 1
    /\ ClientCmd_parse(step.line) = None
    /\ tasks[step.g].state.turn = 0

\* C8: for an accepted command each peer is written exactly OK, then STATE
\* with the board after the move, then one turn signal; no turn signal is
\* written before both peers have their OK and STATE; the peer holding the new
\* turn gets YOUR_TURN and the other OPPONENT_TURN.
C8_Broadcast ==
    [][LineStep /\ step'.result = Ok_ =>
          /\ Len(step'.sent) = 6
          /\ \A p \in {0, 1} :
                ToPeer(step'.sent, p) =
                    <<<<"OK">>, state_line(After),
                      IF After.turn = p THEN <<"YOUR_TURN">> ELSE <<"OPPONENT_TURN">>>>
          /\ \A i, j \in 1..Len(step'.sent) :
                IsTurnSignal(step'.sent[i].msg) /\ ~IsTurnSignal(step'.sent[j].msg) => j < i
          /\ After.turn = 1 - Before.turn
          /\ After # Before]_vars

C8_Witness ==
    /\ step.op = "line"
    /\ step.result = Ok_
    /\ step.line[1] = "SHOOT"
    /\ Len(tasks[step.g].state.pieces) = 2
    /\ Len(step.sent) = 6

Undecodable == LineStep /\ step'.player = Before.turn /\ ClientCmd_parse(step'.line) = None

\* C9 as stated: a line of the turn holder that does not decode is logged as
\* InvalidCmd and nothing is written to either peer; the state stays and the
\* session goes on.
C9_UndecodableSilent ==
    [][Undecodable =>
          /\ step'.sent = <<>>
          /\ step'.warn = "InvalidCmd"
          /\ After = Before
          /\ tasks'[step'.g].status = "Active"]_vars

\* C9, amended: such a line is logged as InvalidCmd and answered with exactly
\* ERROR unrecognised command to its sender, nothing to the other peer; the
\* state stays and the session goes on.
C9_UndecodableError ==
    [][Undecodable =>
          /\ step'.sent = <<Msg(step'.player, <<"ERROR", "unrecognised command">>)>>
          /\ step'.warn = "InvalidCmd"
          /\ After = Before
          /\ tasks'[step'.g].status = "Active"]_vars

C9_Witness ==
    /\ step.op = "line"
    /\ step.result = "unrecognised command"
    /\ step.line = <<"PLACE", "0", "0">>
    /\ step.player = 1

GameRejections == {"radius must be positive", "overlaps an existing piece",
                   "direction vector must be non-zero", "piece index out of range",
                   "that piece does not belong to you"}

\* C10: a command of the turn holder that the game state rejects is answered
\* with one ERROR carrying the reason to its sender; the other peer is written
\* nothing, and no OK, STATE or turn signal goes to anyone.
C10_RejectionToSender ==
    [][LineStep /\ step'.player = Before.turn /\ ClientCmd_parse(step'.line) # None
          /\ step'.result # Ok_ =>
          /\ step'.result \in GameRejections
          /\ step'.sent = <<Msg(step'.player, <<"ERROR", step'.result>>)>>
          /\ ToPeer(step'.sent, 1 - step'.player) = <<>>
          /\ After = Before]_vars

C10_Witness ==
    /\ step.op = "line"
    /\ step.result = "overlaps an existing piece"
    /\ step.sent = <<Msg(1, <<"ERROR", "overlaps an existing piece">>)>>

\* a step of the session's loop: select! has resolved on step'.player
LoopStep == step'.op \in {"line", "gone"}
Resolved == next_line(tasks[step'.g], step'.player).kind

\* C11: when a peer's read resolves to end of stream or to an error in an
\* Active session, DISCONNECTED is written to the other peer and nothing to
\* the peer that failed, the session is Terminated, and a Terminated session
\* handles no further line of either peer, pending or not.
C11_DisconnectEnds ==
    [][/\ LoopStep =>
            /\ tasks[step'.g].status = "Active"
            /\ Resolved \in {"Line", "Eof", "Err"}
            /\ Resolved \in {"Eof", "Err"} <=> step'.op = "gone"
       /\ step'.op = "gone" =>
            /\ step'.sent = <<Msg(1 - step'.player, <<"DISCONNECTED">>)>>
            /\ ToPeer(step'.sent, step'.player) = <<>>
            /\ tasks'[step'.g].status = "Terminated"
       /\ \A g \in DOMAIN tasks :
            tasks[g].status = "Terminated" =>
                /\ tasks'[g] = tasks[g]
                /\ ~(step'.op \in {"start", "line", "gone"} /\ step'.g = g)]_vars

\* player 0 went away while player 1 had an unread line
C11_Witness ==
    /\ step.op = "gone"
    /\ step.player = 0
    /\ step.line = <<"PLACE", "0", "0", "1">>
    /\ step.sent = <<Msg(1, <<"DISCONNECTED">>)>>
    /\ tasks[step.g].status = "Terminated"

\* the read of player p's stream gives end of stream or an error
ReadFails(t, p) ==
    IF t.inbox[p] # <<>> THEN Head(t.inbox[p]) = InvalidUtf8 ELSE t.closed[p]

\* C12 as stated: a read error, a peer close, or a write error met while a
\* message is sent to a peer terminates the session.
C12_FailureTerminates ==
    [][step'.op \in {"start", "line", "gone"}
          /\ (step'.wfail \/ (LoopStep /\ ReadFails(tasks[step'.g], step'.player)))
          => tasks'[step'.g].status = "Terminated"]_vars

\* C12, amended: a read error or a peer close terminates the session; a write
\* error met while a message is sent to a peer is discarded and the session
\* goes on as if the write had succeeded, until a read fails.
C12_ReadFailureTerminates ==
    [][step'.op \in {"start", "line", "gone"} =>
          /\ LoopStep /\ ReadFails(tasks[step'.g], step'.player)
                => tasks'[step'.g].status = "Terminated"
          /\ step'.op \in {"start", "line"} => tasks'[step'.g].status = "Active"
          /\ step'.op = "line" =>
                tasks'[step'.g].state
                    = run_game_line(tasks[step'.g].state, step'.player, step'.line).state
          /\ tasks'[step'.g].status = "Terminated" =>
                LoopStep /\ ReadFails(tasks[step'.g], step'.player)]_vars

\* player 1 has closed; the OK / STATE / turn signal written to it fail and
\* the accepted move of player 0 stands
C12_Witness ==
    /\ step.op = "line"
    /\ step.wfail
    /\ step.result = Ok_
    /\ tasks[step.g].status = "Active"
    /\ tasks[step.g].closed[1]
    /\ Len(tasks[step.g].state.pieces) = 1

\* C13: a session becomes Active by writing READY 0 then YOUR_TURN to peer 0
\* and READY 1 then OPPONENT_TURN to peer 1, with an empty piece list and
\* turn 0; no line is handled before that, and the first accepted move of the
\* session (the one made on the empty list) is made by player 0.
C13_ReadyThenPlayer0 ==
    [][/\ step'.op = "start" =>
            /\ tasks[step'.g].status = "Spawned"
            /\ Len(step'.sent) = 4
            /\ ToPeer(step'.sent, 0) = << <<"READY", "0">>, <<"YOUR_TURN">> >>
            /\ ToPeer(step'.sent, 1) = << <<"READY", "1">>, <<"OPPONENT_TURN">> >>
            /\ tasks'[step'.g].state = [pieces |-> <<>>, turn |-> 0]
            /\ tasks'[step'.g].status = "Active"
       /\ \A g \in DOMAIN tasks :
            tasks[g].status = "Spawned" =>
                /\ ~(LoopStep /\ step'.g = g)
                /\ tasks'[g].status # "Spawned" => step'.op = "start" /\ step'.g = g
       /\ LineStep =>
            /\ Len(After.pieces) >= Len(Before.pieces)
            /\ step'.result = Ok_ => After.pieces # <<>>
            /\ step'.result = Ok_ /\ Before.pieces = <<>> => step'.player = 0]_vars

\* the first accepted move of the session
C13_Witness ==
    /\ step.op = "line"
    /\ step.result = Ok_
    /\ step.player = 0
    /\ Len(tasks[step.g].state.pieces) = 1
    /\ tasks[step.g].state.turn = 1

---------------------------------------------------------------------------
(* Claims about place and shoot, checked under SpecGame: each call the     *)
(* claim speaks of is evaluated on every reachable GameState.              *)

NotYourTurn == "not your turn"
NonPositiveRadius == "radius must be positive"
OverlapErr == "overlaps an existing piece"
ZeroDirection == "direction vector must be non-zero"
IndexOutOfRange == "piece index out of range"
NotOwner == "that piece does not belong to you"

\* the forces and indexes the claims range over
AnyForce == Forces \cup {F(0), NaN}
AnyIndex == 0..(MaxPieces + 1)

\* some existing piece's centre is closer to (x, y) than the sum of the radii
OverlapsSome(s, x, y, radius) ==
    \E i \in 1..Len(s.pieces) : Overlap(s.pieces[i], Piece(0, x, y, radius))

\* the claim's example: (0,0,1) by player 0, (3,0,1) by player 1, then
\* (3,0,1) by player 0
C14_Example ==
    LET r1 == place(GameState_new, 0, F(0), F(0), F(1))
        r2 == place(r1.state, 1, F(3), F(0), F(1))
        r3 == place(r2.state, 0, F(3), F(0), F(1))
    IN r1.result = Ok_ /\ r2.result = Ok_ /\ r3 = Err(r2.state, OverlapErr)

\* C14 as stated: a place call is rejected with Overlap if and only if some
\* existing piece is closer than the sum of the radii; touching is accepted.
C14_OverlapIff ==
    /\ C14_Example
    /\ \A o \in Players, x \in PlaceXs, y \in PlaceYs, r \in Radii :
          place(gs, o, x, y, r).result = OverlapErr <=> OverlapsSome(gs, x, y, r)

\* C14, amended: a place call made by the turn holder with a positive radius
\* is rejected with Overlap if and only if some existing piece is closer than
\* the sum of the radii, and is accepted otherwise (touching included); no
\* other place call is rejected with Overlap.
C14_OverlapIffInTurn ==
    /\ C14_Example
    /\ \A o \in Players, x \in PlaceXs, y \in PlaceYs, r \in Radii :
          LET res == place(gs, o, x, y, r).result IN
          /\ res = OverlapErr => OverlapsSome(gs, x, y, r)
          /\ o = gs.turn /\ flt(F(0), r) =>
                /\ OverlapsSome(gs, x, y, r) => res = OverlapErr
                /\ ~OverlapsSome(gs, x, y, r) => res = Ok_

\* two touching pieces have been accepted and a third place overlaps
C14_Witness ==
    /\ gs.pieces = <<Piece(0, F(0), F(0), F(1)), Piece(1, F(2), F(0), F(1))>>
    /\ step.op = "place"
    /\ step.player = 0
    /\ step.result = OverlapErr

\* C15 as stated: a shoot with dx = dy = 0 is rejected with ZeroDirection
\* for every force and every index, and the state stays.
C15_ZeroDirectionAlways ==
    \A o \in Players, i \in AnyIndex, f \in AnyForce :
        shoot(gs, o, i, F(0), F(0), f) = Err(gs, ZeroDirection)

\* C15, amended: a shoot with dx = dy = 0 made by the turn holder is rejected
\* with ZeroDirection for every force and every index, in range or not, the
\* shooter's or not; made out of turn it is rejected with NotYourTurn; the
\* state stays in both cases.
C15_ZeroDirectionInTurn ==
    \A o \in Players, i \in AnyIndex, f \in AnyForce :
        shoot(gs, o, i, F(0), F(0), f)
            = Err(gs, IF o = gs.turn THEN ZeroDirection ELSE NotYourTurn)

\* a zero direction has been rejected on an empty board, where no index is
\* in range
C15_Witness ==
    /\ step.op = "shoot"
    /\ step.result = ZeroDirection
    /\ gs.pieces = <<>>

IsZero(d) == d[1] = F(0) /\ d[2] = F(0)
Min2(a, b) == IF a <= b THEN a ELSE b

MovesOwnPieceOnly ==
    \A o \in Players, i \in AnyIndex, d \in Dirs, f \in AnyForce :
        LET r == shoot(gs, o, i, d[1], d[2], f) IN
        r.result = Ok_ =>
            /\ i < Len(gs.pieces)
            /\ gs.pieces[i + 1].owner = o
            /\ \A k \in 1..Len(gs.pieces) :
                  k # i + 1 => r.state.pieces[k] = gs.pieces[k]

C18_CountIsPlaced ==
    /\ Len(gs.pieces) = placed
    /\ Len(state_line(gs)) = 2 + 4 * placed
    /\ state_line(gs)[2] = ToString(placed)
    /\ \A o \in Players, x \in PlaceXs, y \in PlaceYs, r \in Radii :
          LET res == place(gs, o, x, y, r) IN
          Len(res.state.pieces) = Len(gs.pieces) + (IF res.result = Ok_ THEN 1 ELSE 0)
    /\ \A o \in Players, i \in AnyIndex, d \in Dirs, f \in AnyForce :
          Len(shoot(gs, o, i, d[1], d[2], f).state.pieces) = Len(gs.pieces)

\* two places and a shoot have been accepted
C18_Witness ==
    /\ placed = 2
    /\ shots = 1
    /\ step.op = "shoot"
    /\ step.result = Ok_
    /\ state_line(gs)[2] = "2"

\* C19: a piece keeps its index, owner and radius for the rest of the game;
\* its position changes only by an accepted shoot; pieces are never removed
\* or reordered, and a new piece is appended at index pieces.len().
C19_IndexStable ==
    [][/\ Len(gs'.pieces) >= Len(gs.pieces)
       /\ \A i \in 1..Len(gs.pieces) :
            /\ gs'.pieces[i].owner = gs.pieces[i].owner
            /\ gs'.pieces[i].radius = gs.pieces[i].radius
            /\ gs'.pieces[i] # gs.pieces[i] => step'.op = "shoot" /\ step'.result = Ok_
       /\ Len(gs'.pieces) > Len(gs.pieces) =>
            /\ step'.op = "place" /\ step'.result = Ok_
            /\ Len(gs'.pieces) = Len(gs.pieces) + 1
            /\ gs'.pieces[Len(gs.pieces) + 1].owner = step'.player]_vars

\* piece 0 has been moved and is still piece 0, with piece 1 behind it
C19_Witness ==
    /\ Len(gs.pieces) = 2
    /\ gs.pieces[1].owner = 0
    /\ gs.pieces[1].x = F(-1)
    /\ gs.pieces[2].owner = 1
    /\ step.op = "shoot"
    /\ step.result = Ok_

\* C20: a place by the turn holder with radius <= 0 is rejected with
\* NonPositiveRadius whatever the position and the board, and every piece of
\* every reachable state has radius > 0.
C20_RadiusPositive ==
    /\ \A x \in PlaceXs, y \in PlaceYs, r \in Radii :
          fle(r, F(0)) => place(gs, gs.turn, x, y, r) = Err(gs, NonPositiveRadius)
    /\ \A i \in 1..Len(gs.pieces) : flt(F(0), gs.pieces[i].radius)

---------------------------------------------------------------------------
(* Further claims about the accept loop, checked under SpecServer *)

\* C21: when the first or the second accept of a pairing fails, the loop
\* gives back the slot it acquired for the pairing in that very step, creates
\* no session and is back at the acquire; the pool is then what it was before
\* the iteration: available + held by running sessions = the maximum.
C21_AcceptErrorReleases ==
    [][step'.op \in {"accept1_err", "accept2_err"} =>
          /\ acceptPc \in {"accept1", "accept2"}
          /\ slots' = slots + 1
          /\ tasks' = tasks
          /\ acceptPc' = "acquire"
          /\ slots' + Cardinality(Running') = max_games]_vars

\* the second accept has failed while another game is running
C21_Witness ==
    /\ step.op = "accept2_err"
    /\ Cardinality(Running) = 1
    /\ slots = max_games - 1
    /\ acceptPc = "acquire"

---------------------------------------------------------------------------
(* Further claims about place and shoot, checked under SpecGame *)

\* the unit vector of a direction of the model: each direction lies on an
\* axis, so its unit vector is its sign on that axis
Sign(a) == IF a.nan THEN NaN ELSE IF a.v > 0 THEN F(1) ELSE IF a.v < 0 THEN F(-1) ELSE F(0)
UnitOf(d) == IF d[1].nan \/ d[2].nan THEN <<NaN, NaN>> ELSE <<Sign(d[1]), Sign(d[2])>>

\* a + u * f on the grid, NaN as soon as one of them is NaN
Moved(a, u, f) == IF a.nan \/ u.nan \/ f.nan THEN NaN ELSE F(a.v + u.v * f.v)

\* C28: an accepted shoot on index i changes only x and y of piece i and
\* flips the turn; owner and radius of that piece and every other piece stay;
\* the new position is the old one plus the unit vector of (dx, dy) times
\* force; the call is accepted whatever the other pieces' positions are.
C28_ShootFrame ==
    \A o \in Players, i \in AnyIndex, d \in Dirs, f \in AnyForce :
        LET r == shoot(gs, o, i, d[1], d[2], f)
            u == UnitOf(d)
        IN /\ (o = gs.turn /\ ~IsZero(d) /\ i < Len(gs.pieces)
                /\ gs.pieces[Min2(i + 1, Len(gs.pieces))].owner = o) <=> r.result = Ok_
           /\ r.result = Ok_ =>
                /\ r.state.turn = 1 - gs.turn
                /\ Len(r.state.pieces) = Len(gs.pieces)
                /\ \A k \in 1..Len(gs.pieces) : k # i + 1 => r.state.pieces[k] = gs.pieces[k]
                /\ r.state.pieces[i + 1]
                     = [gs.pieces[i + 1] EXCEPT !.x = Moved(@, u[1], f),
                                                !.y = Moved(@, u[2], f)]

\* piece 0 has been shot onto piece 1
C28_Witness ==
    /\ step.op = "shoot"
    /\ step.result = Ok_
    /\ gs.pieces = <<Piece(0, F(2), F(0), F(1)), Piece(1, F(2), F(0), F(1))>>

\* C22: the client's decoding of the STATE line of a reachable piece list is
\* a board with as many pieces, in the same order, each with the owner, x, y
\* and radius of the server's piece and with index equal to its place in the
\* server's list.
C22_StateRoundTrip ==
    LET m == ServerMsg_parse(state_line(gs)) IN
    /\ m.kind = "State"
    /\ Len(m.board.pieces) = Len(gs.pieces)
    /\ \A i \in 1..Len(gs.pieces) :
          m.board.pieces[i] = [index |-> i - 1, owner |-> gs.pieces[i].owner,
                               x |-> gs.pieces[i].x, y |-> gs.pieces[i].y,
                               radius |-> gs.pieces[i].radius]

\* two pieces of different owners, one of them moved to a negative x
C22_Witness ==
    /\ Len(gs.pieces) = 2
    /\ gs.pieces[1].x = F(-1)
    /\ gs.pieces[2].x = F(3)
    /\ ServerMsg_parse(state_line(gs)).kind = "State"

---------------------------------------------------------------------------
(* Further claims about the session loop, checked under SpecSession *)

\* C26: an Active session becomes Terminated only in the step in which a
\* read on one of its peers gives end of stream or an error; a step that
\* handles a line (accepted, rejected, undecodable or out of turn) leaves it
\* Active with its permit; and from a state in which neither peer's read
\* fails every step leaves it Active with its permit.
C26_OnlyReadFailureEnds ==
    [][\A g \in DOMAIN tasks :
          tasks[g].status = "Active" =>
              /\ tasks'[g].status \in {"Active", "Terminated"}
              /\ tasks'[g].status = "Terminated" =>
                    /\ step'.op = "gone" /\ step'.g = g
                    /\ ReadFails(tasks[g], step'.player)
              /\ LineStep /\ step'.g = g =>
                    tasks'[g].status = "Active" /\ tasks'[g].permit
              /\ ~ReadFails(tasks[g], 0) /\ ~ReadFails(tasks[g], 1) =>
                    tasks'[g].status = "Active" /\ tasks'[g].permit]_vars

\* a rejected command has been handled after two accepted ones and the
\* session is Active with its permit
C26_Witness ==
    /\ step.op = "line"
    /\ step.result \in GameRejections
    /\ Len(tasks[step.g].state.pieces) = 2
    /\ tasks[step.g].status = "Active"
    /\ tasks[step.g].permit

---------------------------------------------------------------------------
(* Claims about pairing, checked under SpecServer *)

Waiting(sent) == \E i \in 1..Len(sent) : sent[i].msg = <<"WAITING">>

PeersOf(t) == {t.peers[1], t.peers[2]}

\* C25: the connection accepted first in an iteration is written WAITING in
\* the step that accepts it, when its session does not exist yet, and is
\* peer 0 of the session spawned by that iteration; the connection accepted
\* next is peer 1 of that session and is never written WAITING; no connection
\* is a peer of two sessions.
C25_PairingFifo ==
    /\ [](\A g \in DOMAIN tasks :
            /\ tasks[g].peers[2] = tasks[g].peers[1] + 1
            /\ \A h \in DOMAIN tasks : h # g => PeersOf(tasks[g]) \cap PeersOf(tasks[h]) = {})
    /\ [][/\ step'.op = "accept1" =>
               /\ conns'.s1 = Some(conns.accepted)
               /\ step'.sent = <<Msg(0, <<"WAITING">>)>>
               /\ step'.g \notin DOMAIN tasks'
          /\ Waiting(step'.sent) => step'.op = "accept1"
          /\ step'.op = "spawn" =>
               /\ conns.s1 # None
               /\ step'.g \notin DOMAIN tasks
               /\ tasks'[step'.g].peers = <<conns.s1[1], conns.accepted>>
               /\ tasks'[step'.g].status = "Spawned"]_vars

\* a second session has been paired after an iteration that lost its first
\* connection: its peers are connections 3 and 4
C25_Witness ==
    /\ step.op = "spawn"
    /\ Cardinality(DOMAIN tasks) = 2
    /\ tasks[step.g].peers = <<3, 4>>

---------------------------------------------------------------------------
(* Claims about the terminal client, checked under SpecTerminal *)

\* C23: in the terminal client, input is disabled once a command has been
\* sent and stays disabled until a message of the server is handled; when the
\* server answers ERROR, the input of the client that receives it is enabled
\* again, so that the player can send a corrected command.
C23_ErrorReenablesInput ==
    [][/\ step'.op = "client_send" => ~clients'[step'.player].my_turn
       /\ \A p \in Players :
             ~clients[p].my_turn /\ clients'[p].my_turn =>
                 step'.op = "client_recv" /\ step'.player = p
       /\ step'.op = "client_recv" /\ step'.result = "Error" =>
             clients'[step'.player].my_turn]_vars

\* C24: in a session played by two terminal clients, a running client whose
\* input is enabled has the player id that the session's state.turn names,
\* and the session is in its loop; so at most one client has its input
\* enabled, a command is sent only by the player whose turn it is, and no
\* line is rejected as out of turn.
C24_EnabledClientHoldsTurn ==
    /\ \A p \in Players :
          clients[p].up /\ clients[p].my_turn =>
              /\ tasks[0].status = "Active"
              /\ clients[p].player_id = p
              /\ clients[p].player_id = tasks[0].state.turn
    /\ ~(clients[0].up /\ clients[0].my_turn /\ clients[1].up /\ clients[1].my_turn)
    /\ step.op = "client_send" =>
          tasks[0].status = "Active" /\ tasks[0].state.turn = step.player
    /\ step.op = "line" => step.result # NotYourTurn

\* player 1's client has read YOUR_TURN after player 0's move was accepted
C24_Witness ==
    /\ step.op = "client_recv"
    /\ step.player = 1
    /\ step.result = "YourTurn"
    /\ clients[1].up /\ clients[1].my_turn /\ clients[1].player_id = 1
    /\ ~clients[0].my_turn
    /\ tasks[0].status = "Active"
    /\ tasks[0].state.turn = 1
    /\ Len(tasks[0].state.pieces) = 1

---------------------------------------------------------------------------
(* Claims about the engine variant, checked under SpecEngine *)

Apart(es) ==
    \A i, j \in 1..Len(es) :
        i < j => length(es[j].pos - es[i].pos) >= es[i].radius + es[j].radius

\* C29: after resolve_collisions has run over all pairs of entities, no two
\* entities overlap: for every pair the distance of the centres is at least
\* the sum of the radii, whatever the positions were before, three mutually
\* close entities and two entities at one position included.
C29_NoOverlapAfterResolve ==
    step.op = "resolve" => Apart(ents)

---------------------------------------------------------------------------
(* Liveness.  The tokio runtime polls every task that is ready: a task     *)
(* that can take a step does take one eventually.  Nothing is assumed of   *)
(* the clients or of the arrival of connections.                           *)

\* the server started with --max-games 1: one slot, sessions one at a time
InitOneSlot == InitServer /\ args.max_games = 1

FairServer ==
    /\ InitOneSlot /\ [][NextServer]_vars
    /\ WF_vars(Acquire)
    /\ \A g \in 0..(MaxGameId - 1) : WF_vars(StartGame(g))
    /\ \A g \in 0..(MaxGameId - 1), p \in Players :
          WF_vars(RecvLine(g, p)) /\ WF_vars(PeerGone(g, p))

PeerClosed(g) ==
    /\ g \in DOMAIN tasks
    /\ tasks[g].status \in {"Spawned", "Active"}
    /\ tasks[g].closed[0] \/ tasks[g].closed[1]

Ended(g) == g \in DOMAIN tasks /\ tasks[g].status = "Terminated" /\ ~tasks[g].permit

\* C27: under fair scheduling a running session one of whose peers has
\* closed its connection eventually terminates and gives its permit back,
\* and an accept loop suspended on an exhausted pool while such a session
\* runs eventually acquires a slot and goes on to accept.
C27_CloseFreesSlot ==
    /\ \A g \in 0..(MaxGameId - 1) :
          PeerClosed(g) ~> Ended(g)
    /\ (/\ acceptPc = "acquire" /\ slots = 0 /\ game_counter < MaxGameId
        /\ \E g \in 0..(MaxGameId - 1) : PeerClosed(g))
          ~> (acceptPc = "accept1")

\* the loop has resumed after a session whose peer closed gave its slot back
C27_Witness ==
    /\ step.op = "acquire"
    /\ slots = 0
    /\ \E g \in DOMAIN tasks : tasks[g].status = "Terminated"
    /\ Cardinality(Running) = max_games - 1

====
